---- MODULE Spec2Model ----
(***************************************************************************)
(* Homomorphic authentication: the byte stream, the Packet (key material,  *)
(* Encrypt/Decrypt, parallel gate evaluation), the client's SignUp/LogIn   *)
(* and the server's three handlers over the locked user database.          *)
(***************************************************************************)
EXTENDS Integers, Sequences, FiniteSets, TLC

(***************************************************************************)
(* Bounds of the model.                                                    *)
(***************************************************************************)
\* largest Client.messageByteLen explored
MaxMessageByteLen == 2
\* math/rand seeds of MakeRandByteStream run over 0..MaxRandSeed
MaxRandSeed == 255
\* number of key bits read by lweKeyGen / tlweKeyGen from the byte stream
LweN == 2
\* longest ciphertext handed to ParallelUnary / ParallelBinary
MaxGateLen == 3
\* most bytes read from one ByteStream
MaxStreamLen == 4

(***************************************************************************)
(* Program constants.                                                      *)
(***************************************************************************)
\* units per payload byte: ctxt := make(gates.Ctxt, 8*len(payload))
BitsPerByte == 8
\* a Go byte holds values 0..255
ByteMod == 256
\* http.StatusOK, StatusBadRequest, StatusForbidden, StatusInternalServerError
StatusOK == 200
StatusBadRequest == 400
StatusForbidden == 403
StatusInternalServerError == 500

(***************************************************************************)
(* Bytes.                                                                  *)
(***************************************************************************)
Pow2(j) == 2 ^ j

\* bit j of byte b: int(b>>j) & 0x1
Bit(b, j) == (b \div Pow2(j)) % 2

\* a ^ b on two bytes
XorByte(a, b) ==
    LET x[j \in 0..BitsPerByte] ==
            IF j = BitsPerByte THEN 0
            ELSE ((Bit(a, j) + Bit(b, j)) % 2) * Pow2(j) + x[j + 1]
    IN  x[0]

\* xorBytes panics on slices of different length
xorBytesPanics(a, b) == Len(a) # Len(b)

xorBytes(a, b) == [i \in 1..Len(a) |-> XorByte(a[i], b[i])]

\* make([]byte, n): n zero bytes
ZeroBytes(n) == [i \in 1..n |-> 0]

(***************************************************************************)
(* ByteStream: a seeded stream cipher read front to back.                  *)
(***************************************************************************)
\* the seed material as a number (stands for the two fnv128 digests of it)
SeedNum(key) ==
    LET h[i \in 0..Len(key)] ==
            IF i = 0 THEN 0
            ELSE (h[i - 1] * ByteMod + key[Len(key) + 1 - i]) % 65521
    IN  h[Len(key)]

\* byte `off` of the CTR keystream of the cipher keyed by `num`
KeyStreamByte(num, off) ==
    ((num + 7 * (off \div BitsPerByte)) \div Pow2(off % BitsPerByte)) % ByteMod

\* the cipher is keyed once, at construction
MakeByteStream(key) == [num |-> SeedNum(key), pos |-> 0]

\* binary.LittleEndian.AppendUint64(nil, seed)
LittleEndian64(n) ==
    [i \in 1..8 |-> IF i <= 3 THEN (n \div (ByteMod ^ (i - 1))) % ByteMod ELSE 0]

MakeRandByteStream(seed) == MakeByteStream(LittleEndian64(seed))

\* NextBytes returns the next n bytes and advances the stream
NextBytes(cbs, n) == [i \in 1..n |-> KeyStreamByte(cbs.num, cbs.pos + i - 1)]
\* a stream that starts over at every call
AdvanceNot(cbs, n) == cbs
\* XORKeyStream moves the cipher stream on by the n bytes it produced
Advance(cbs, n) == [cbs EXCEPT !.pos = @ + n]
NextByte(cbs) == NextBytes(cbs, 1)[1]

(***************************************************************************)
(* Key material and ciphertext units.  The bootstrapping key of a public   *)
(* key is made for one LWE key and does not show its bits; a unit          *)
(* (core.LweSample) is known by the bootstrapping key that can work on it  *)
(* and the bit it holds.                                                   *)
(***************************************************************************)
\* core.NewLweBootstrappingKeyWrapper(..., lweKey, tgswKey): the public
\* material made for lweKey, a different value for each key and never a key
NewLweBootstrappingKeyWrapper(lweKey, tgswKey) ==
    [i \in 1..Len(lweKey) |-> 2 + lweKey[i]]

\* a nil *core.LweSample and the output of a gate run with a foreign key
NilUnit == [k |-> <<>>, b |-> 0]
JunkUnit == [k |-> <<-1>>, b |-> 0]
\* a nil private key / nil public key
NoKey == [lwe |-> <<>>, tlwe |-> <<>>]
NoPub == [Params |-> 0, Bkw |-> <<>>]

\* lweKeyGen: one key bit per stream byte, byteStream.NextByte() & 1
lweKeyGen(byteStream) == [i \in 1..LweN |-> NextByte(Advance(byteStream, i - 1)) % 2]

\* tlweKeyGen: the next key bits of the same stream
tlweKeyGen(byteStream) == [i \in 1..LweN |-> NextByte(Advance(byteStream, i - 1)) % 2]

\* a key pair whose public half carries the LWE key itself
generateKeysBareKey(byteStream) ==
    LET lweKey == lweKeyGen(byteStream)
        tgswKey == tlweKeyGen(Advance(byteStream, LweN))
    IN  [pub |-> [Params |-> 128, Bkw |-> lweKey],
         prv |-> [lwe |-> lweKey, tlwe |-> tgswKey]]

\* generateKeys: the key pair, the second key read after the first
generateKeys(byteStream) ==
    LET lweKey == lweKeyGen(byteStream)
        tgswKey == tlweKeyGen(Advance(byteStream, LweN))
    IN  [pub |-> [Params |-> 128, Bkw |-> NewLweBootstrappingKeyWrapper(lweKey, tgswKey)],
         prv |-> [lwe |-> lweKey, tlwe |-> tgswKey]]

MakePacket(byteStream) == generateKeys(byteStream)

\* the JSON form of a public key and back
MakePublicKey(pk) == [Params |-> pk.Params, Bkw |-> [Bk |-> pk.Bkw, BkFFT |-> pk.Bkw]]
fromPublicKey(publicKey) == [Params |-> publicKey.Params, Bkw |-> publicKey.Bkw.Bk]
MakePublicPacket(publicKey) == [pub |-> fromPublicKey(publicKey), prv |-> NoKey]

\* prv.BootsSymEncrypt(bit) and prv.BootsSymDecrypt(sample); a sample of
\* another key decrypts to the bit g that its noise happens to give
BootsSymEncrypt(prv, bit) ==
    [k |-> NewLweBootstrappingKeyWrapper(prv.lwe, prv.tlwe), b |-> bit]
BootsSymDecrypt(prv, sample, g) ==
    IF sample.k = NewLweBootstrappingKeyWrapper(prv.lwe, prv.tlwe) THEN sample.b ELSE g

\* an Encrypt that walks each byte from its highest bit down
EncryptHighBitFirst(p, payload) ==
    [i \in 1..(BitsPerByte * Len(payload)) |->
        BootsSymEncrypt(p.prv, Bit(payload[((i - 1) \div BitsPerByte) + 1],
                                   BitsPerByte - 1 - ((i - 1) % BitsPerByte)))]

\* Encrypt: 8 units per byte, unit 8k+j holds bit j of byte k
Encrypt(p, payload) ==
    [i \in 1..(BitsPerByte * Len(payload)) |->
        BootsSymEncrypt(p.prv, Bit(payload[((i - 1) \div BitsPerByte) + 1],
                                   (i - 1) % BitsPerByte))]

\* a Decrypt that shifts the other way: result[j] = (result[j] << 1) | bit
DecryptShiftLeft(p, encryptedPayload, junk) ==
    LET n == Len(encryptedPayload)
        bytes == (n + 7) \div BitsPerByte
        bit(i) == BootsSymDecrypt(p.prv, encryptedPayload[i], junk[i])
        byte(j) ==
            LET m == IF n - BitsPerByte * j < BitsPerByte
                     THEN n - BitsPerByte * j ELSE BitsPerByte
                r[k \in 0..m] ==
                    IF k = 0 THEN 0
                    ELSE ((r[k - 1] * 2) % ByteMod) + bit(BitsPerByte * j + k)
            IN  r[m]
    IN  [j \in 1..bytes |-> byte(j - 1)]

\* Decrypt: result[j] = (result[j] >> 1) | (bit << 7) over the units of byte j;
\* junk[i] is what unit i decrypts to when it is not under this key
Decrypt(p, encryptedPayload, junk) ==
    LET n == Len(encryptedPayload)
        bytes == (n + 7) \div BitsPerByte
        bit(i) == BootsSymDecrypt(p.prv, encryptedPayload[i], junk[i])
        byte(j) ==
            LET m == IF n - BitsPerByte * j < BitsPerByte
                     THEN n - BitsPerByte * j ELSE BitsPerByte
                r[k \in 0..m] ==
                    IF k = 0 THEN 0
                    ELSE (r[k - 1] \div 2) + bit(BitsPerByte * j + k) * Pow2(BitsPerByte - 1)
            IN  r[m]
    IN  [j \in 1..bytes |-> byte(j - 1)]

\* Decrypt dereferences a nil private key or a nil unit once it has a unit to read
DecryptPanics(p, encryptedPayload) ==
    /\ Len(encryptedPayload) > 0
    /\ \/ p.prv = NoKey
       \/ \E i \in 1..Len(encryptedPayload) : encryptedPayload[i] = NilUnit

(***************************************************************************)
(* Gates of the public key, one unit at a time.                            *)
(***************************************************************************)
\* a bootstrapped gate gives a unit of the key only on inputs of that key
Bootstrapped(pk, a, b, bit) ==
    IF a.k = pk.Bkw /\ b.k = pk.Bkw THEN [k |-> pk.Bkw, b |-> bit] ELSE JunkUnit

\* a gate dereferences its operands: a nil unit is a nil-pointer panic
GatePanics(a) == a = NilUnit

GateNot(pk, a) == [a EXCEPT !.b = 1 - a.b]
GateCopy(pk, a) == a
GateAnd(pk, a, b) == Bootstrapped(pk, a, b, a.b * b.b)
GateOr(pk, a, b) == Bootstrapped(pk, a, b, IF a.b + b.b > 0 THEN 1 ELSE 0)
GateXor(pk, a, b) == Bootstrapped(pk, a, b, (a.b + b.b) % 2)
GateXnor(pk, a, b) == Bootstrapped(pk, a, b, 1 - ((a.b + b.b) % 2))

UnaryOps == {"Not", "Copy"}
BinaryOps == {"And", "Or", "Xor", "XNor"}

\* operation(p.pub, a[i]) and operation(p.pub, a[i], b[i])
ApplyUnary(op, pk, a) == IF op = "Not" THEN GateNot(pk, a) ELSE GateCopy(pk, a)
ApplyBinary(op, pk, a, b) ==
    CASE op = "And" -> GateAnd(pk, a, b)
      [] op = "Or" -> GateOr(pk, a, b)
      [] op = "Xor" -> GateXor(pk, a, b)
      [] OTHER -> GateXnor(pk, a, b)

\* gate applied position by position: what ParallelUnary / ParallelBinary return
EvalUnary(op, p, a) == [i \in 1..Len(a) |-> ApplyUnary(op, p.pub, a[i])]
EvalBinary(op, p, a, b) == [i \in 1..Len(a) |-> ApplyBinary(op, p.pub, a[i], b[i])]

(***************************************************************************)
(* The server's encrypted mutation.                                        *)
(***************************************************************************)
\* a mutation that applies the gate of pair i to unit i instead of unit 0
MutationUnitOwn(packet, encryptedPayload, randByteStream, i) ==
    IF NextByte(Advance(randByteStream, i)) % 2 = 0
    THEN GateNot(packet.pub, encryptedPayload[i + 1])
    ELSE encryptedPayload[i + 1]

\* the gate picked for pair i by coin i of the random stream, applied to unit 0
MutationUnit(packet, encryptedPayload, randByteStream, i) ==
    IF NextByte(Advance(randByteStream, i)) % 2 = 0
    THEN GateNot(packet.pub, encryptedPayload[1])
    ELSE encryptedPayload[1]

\* a mutation that draws a coin of its own for the upper half
makeEncryptedMutationUnpaired(packet, encryptedPayload, randByteStream) ==
    [i \in 1..Len(encryptedPayload) |->
        MutationUnit(packet, encryptedPayload, randByteStream, i - 1)]

\* randomPayload[i] and randomPayload[i+len/2] get the same gate of unit 0;
\* with an odd length the last position is never assigned
makeEncryptedMutation(packet, encryptedPayload, randByteStream) ==
    LET half == Len(encryptedPayload) \div 2
    IN  [i \in 1..Len(encryptedPayload) |->
            IF i <= half
            THEN MutationUnit(packet, encryptedPayload, randByteStream, i - 1)
            ELSE IF i <= 2 * half
            THEN MutationUnit(packet, encryptedPayload, randByteStream, i - 1 - half)
            ELSE NilUnit]

(***************************************************************************)
(* Inputs.                                                                 *)
(***************************************************************************)
ByteVals == {0, 18, 200}
ByteSeqs(n) == [1..n -> ByteVals]
NoiseVals == {0, 200}
RandSeeds == 0..MaxRandSeed
MessageByteLens == 0..MaxMessageByteLen

\* the client's payload: noise followed by noise XOR secret
Payload(noise, secret) == noise \o xorBytes(noise, secret)

\* the client's recovery: first half XOR second half of the decrypted bytes
Recover(mutatedSecret, messageByteLen) ==
    xorBytes(SubSeq(mutatedSecret, 1, messageByteLen),
             SubSeq(mutatedSecret, messageByteLen + 1, Len(mutatedSecret)))

VARIABLES
    rc,            \* the recovery computation of SpecRecover
    gate,          \* the gate call of SpecGate
    userDatabase,  \* Server.userDatabase: map from username to User
    userDBMu,      \* Server.userDBMu: 0 when free, else the handler holding it
    handler,       \* the server goroutine serving each client's request
    client,        \* each client's call of SignUp / LogIn or raw request
    regSecret,     \* history: the Secret of the request that wrote each User
    signedUp,      \* history: the <<username, password>> whose SignUp returned true
    codec,         \* the Encrypt / Decrypt computation of SpecCodec
    ks             \* the byte streams of SpecStream

vars == <<rc, gate, userDatabase, userDBMu, handler, client, regSecret, signedUp, codec, ks>>
nonRc == <<gate, userDatabase, userDBMu, handler, client, regSecret, signedUp, codec, ks>>
nonGate == <<rc, userDatabase, userDBMu, handler, client, regSecret, signedUp, codec, ks>>
nonCodec == <<rc, gate, userDatabase, userDBMu, handler, client, regSecret, signedUp, ks>>
nonKs == <<rc, gate, userDatabase, userDBMu, handler, client, regSecret, signedUp, codec>>

\* the protocol is not running
ProtoOff ==
    /\ userDatabase = <<>>
    /\ userDBMu = 0
    /\ handler = <<>>
    /\ client = <<>>
    /\ regSecret = <<>>
    /\ signedUp = {}

(***************************************************************************)
(* SpecRecover: sign-up payload, server mutation and client recovery as    *)
(* one computation over drawn secret, noise and coins.                     *)
(***************************************************************************)
RcIdle == [pc |-> "off", n |-> 0, secret |-> <<>>, noise |-> <<>>, password |-> <<>>,
           enc |-> <<>>, seed |-> 0, random |-> <<>>, mutated |-> <<>>, recovered |-> <<>>]

GateIdle == [pc |-> "off", op |-> "Copy", a |-> <<>>, b |-> <<>>, result |-> <<>>,
             wg |-> 0, spawned |-> 0, w |-> <<>>, ret |-> <<>>]

CodecIdle == [pc |-> "off", password |-> <<>>, payload |-> <<>>, enc |-> <<>>, dec |-> <<>>]

StreamIdle == [pc |-> "off", key |-> <<>>, total |-> 0, stream |-> <<>>, out |-> <<>>,
               calls |-> <<>>]

RcInit ==
    /\ gate = GateIdle
    /\ codec = CodecIdle
    /\ ks = StreamIdle
    /\ ProtoOff
    /\ \E n \in MessageByteLens, password \in {<<112>>} :
      \E secret \in ByteSeqs(n), noise \in [1..n -> NoiseVals] :
        rc = [RcIdle EXCEPT !.pc = "start", !.n = n, !.secret = secret,
                            !.noise = noise, !.password = password]

\* Client.SignUp lines 72-80: key from the password, payload, Encrypt
RcEncrypt ==
    /\ rc.pc = "start"
    /\ rc' = [rc EXCEPT !.pc = "stored",
                        !.enc = Encrypt(MakePacket(MakeByteStream(rc.password)),
                                        Payload(rc.noise, rc.secret))]
    /\ UNCHANGED nonRc

\* FirstLoginHandler lines 164-168 on the stored ciphertext, coins from a fresh stream
RcMutate ==
    /\ rc.pc = "stored"
    /\ \E seed \in RandSeeds :
         LET clientPacket == MakePacket(MakeByteStream(rc.password))
             serverPacket == MakePublicPacket(MakePublicKey(clientPacket.pub))
             randomPayload == makeEncryptedMutation(serverPacket, rc.enc,
                                                    MakeRandByteStream(seed))
         IN  rc' = [rc EXCEPT !.pc = "mutated", !.seed = seed, !.random = randomPayload,
                              !.mutated = EvalBinary("Xor", serverPacket, randomPayload, rc.enc)]
    /\ UNCHANGED nonRc

\* Client.LogIn lines 114-117: Decrypt and XOR of the halves
RcRecover ==
    /\ rc.pc = "mutated"
    /\ LET packet == MakePacket(MakeByteStream(rc.password))
           mutatedSecret == Decrypt(packet, rc.mutated, [i \in 1..Len(rc.mutated) |-> 0])
       IN  rc' = [rc EXCEPT !.pc = "done", !.recovered = Recover(mutatedSecret, rc.n)]
    /\ UNCHANGED nonRc

RcNext == RcEncrypt \/ RcMutate \/ RcRecover

SpecRecover == RcInit /\ [][RcNext]_vars

\* C1: the client's recovery returns exactly the secret it signed up with,
\* for every secret, noise and coin sequence
RecoveredIsSecret == rc.pc = "done" => rc.recovered = rc.secret

\* C1 witness: a recovery ran on a non-constant secret with non-zero noise
\* after the server applied both gates
RecoveredWitness ==
    /\ rc.pc = "done"
    /\ rc.n = 2
    /\ rc.secret = <<18, 200>>
    /\ rc.noise = <<200, 0>>
    /\ \E i, j \in 1..Len(rc.mutated) :
          rc.mutated[i].b # rc.enc[i].b /\ rc.mutated[j].b = rc.enc[j].b

\* C18: the mutation of a stored ciphertext of length 2h has length 2h, and
\* for every i below h its positions i and i+h hold the same unit: NOT of
\* unit 0 when coin i of the random stream is even, unit 0 when it is odd,
\* h coins in all
MutationPaired ==
    rc.pc \in {"mutated", "done"} =>
        LET h == Len(rc.enc) \div 2
            coins == NextBytes(MakeRandByteStream(rc.seed), h)
            pub == MakePacket(MakeByteStream(rc.password)).pub
        IN  /\ Len(rc.enc) = 2 * h
            /\ Len(rc.random) = 2 * h
            /\ \A i \in 1..h :
                  /\ rc.random[i] = rc.random[i + h]
                  /\ rc.random[i] = IF coins[i] % 2 = 0
                                    THEN GateNot(pub, rc.enc[1]) ELSE rc.enc[1]

\* C18 witness: a mutation of sixteen units with both outcomes among its
\* eight pairs, over a ciphertext whose units are not all alike
MutationPairedWitness ==
    /\ rc.pc = "mutated"
    /\ Len(rc.random) = 16
    /\ rc.random[1] = rc.random[9] /\ rc.random[2] = rc.random[10]
    /\ rc.random[1] # rc.random[2]
    /\ rc.enc[1] # rc.enc[4]

(***************************************************************************)
(* SpecCodec: Encrypt of a drawn payload under a password's key pair, then *)
(* Decrypt of the ciphertext under the same key pair.                      *)
(***************************************************************************)
CodecBytes == {0, 1, 18, 128, 200, 255}
CodecPasswords == {<<112>>, <<113>>}

CodecInit ==
    /\ rc = RcIdle
    /\ gate = GateIdle
    /\ ks = StreamIdle
    /\ ProtoOff
    /\ \E n \in MessageByteLens, password \in CodecPasswords :
         \E payload \in [1..n -> CodecBytes] :
           codec = [CodecIdle EXCEPT !.pc = "start", !.password = password,
                                     !.payload = payload]

\* packet.Encrypt(payload) with the packet of the password
CodecEncrypt ==
    /\ codec.pc = "start"
    /\ codec' = [codec EXCEPT !.pc = "encrypted",
                    !.enc = Encrypt(MakePacket(MakeByteStream(codec.password)),
                                    codec.payload)]
    /\ UNCHANGED nonCodec

\* packet.Decrypt(ctxt) with a packet made again from the password
CodecDecrypt ==
    /\ codec.pc = "encrypted"
    /\ codec' = [codec EXCEPT !.pc = "done",
                    !.dec = Decrypt(MakePacket(MakeByteStream(codec.password)),
                                    codec.enc, [i \in 1..Len(codec.enc) |-> 0])]
    /\ UNCHANGED nonCodec

CodecNext == CodecEncrypt \/ CodecDecrypt

SpecCodec == CodecInit /\ [][CodecNext]_vars

\* C12: Decrypt of Encrypt of a payload, under one key pair, is the payload,
\* the empty payload included
DecryptOfEncrypt == codec.pc = "done" => codec.dec = codec.payload

\* C12 witness: two bytes that are not their own mirror image came back from
\* a ciphertext of sixteen units
DecryptOfEncryptWitness ==
    /\ codec.pc = "done"
    /\ codec.payload = <<18, 200>>
    /\ Len(codec.enc) = 16
    /\ codec.dec = <<18, 200>>

\* C20 as stated: eight units per byte in byte order, unit 8k+j holding bit
\* 7-j of byte k
UnitsHighBitFirst ==
    codec.pc \in {"encrypted", "done"} =>
        /\ Len(codec.enc) = BitsPerByte * Len(codec.payload)
        /\ \A k \in 0..(Len(codec.payload) - 1), j \in 0..(BitsPerByte - 1) :
              codec.enc[BitsPerByte * k + j + 1].b
                  = Bit(codec.payload[k + 1], BitsPerByte - 1 - j)

\* C20 amended: eight units per byte in byte order, unit 8k+j holding bit j of
\* byte k (lowest bit first), and Decrypt giving unit 8k+j the weight 2^j of
\* byte k
UnitsLowBitFirst ==
    /\ codec.pc \in {"encrypted", "done"} =>
          /\ Len(codec.enc) = BitsPerByte * Len(codec.payload)
          /\ \A k \in 0..(Len(codec.payload) - 1), j \in 0..(BitsPerByte - 1) :
                codec.enc[BitsPerByte * k + j + 1].b = Bit(codec.payload[k + 1], j)
    /\ codec.pc = "done" =>
          /\ BitsPerByte * Len(codec.dec) = Len(codec.enc)
          /\ \A k \in 0..(Len(codec.dec) - 1) :
                LET sum[j \in 0..BitsPerByte] ==
                        IF j = BitsPerByte THEN 0
                        ELSE codec.enc[BitsPerByte * k + j + 1].b * Pow2(j) + sum[j + 1]
                IN  codec.dec[k + 1] = sum[0]

\* C20 witness: bytes 1 and 128 were encrypted and decrypted; the set bit of
\* the first is its unit 0, the set bit of the second its unit 7
UnitsOrderWitness ==
    /\ codec.pc = "done"
    /\ codec.payload = <<1, 128>>
    /\ codec.enc[1].b = 1 /\ codec.enc[8].b = 0
    /\ codec.enc[9].b = 0 /\ codec.enc[16].b = 1
    /\ codec.dec = <<1, 128>>

(***************************************************************************)
(* SpecStream: two ByteStreams made from one key, each read to the same    *)
(* total in calls of any sizes.                                            *)
(***************************************************************************)
StreamKeys == {<<112>>, <<113>>, LittleEndian64(200)}

StreamInit ==
    /\ rc = RcIdle
    /\ gate = GateIdle
    /\ codec = CodecIdle
    /\ ProtoOff
    /\ \E key \in StreamKeys, total \in 0..MaxStreamLen :
         ks = [StreamIdle EXCEPT !.pc = "run", !.key = key, !.total = total,
                  !.stream = <<MakeByteStream(key), MakeByteStream(key)>>,
                  !.out = << <<>>, <<>> >>, !.calls = << <<>>, <<>> >>]

\* cbs.NextBytes(n) on stream s
StreamNextBytes(s, n) ==
    /\ ks.pc = "run"
    /\ n \in 1..(ks.total - Len(ks.out[s]))
    /\ ks' = [ks EXCEPT !.out[s] = @ \o NextBytes(ks.stream[s], n),
                        !.stream[s] = Advance(@, n),
                        !.calls[s] = Append(@, n)]
    /\ UNCHANGED nonKs

\* cbs.NextByte() on stream s
StreamNextByte(s) ==
    /\ ks.pc = "run"
    /\ Len(ks.out[s]) < ks.total
    /\ ks' = [ks EXCEPT !.out[s] = Append(@, NextByte(ks.stream[s])),
                        !.stream[s] = Advance(@, 1),
                        !.calls[s] = Append(@, 1)]
    /\ UNCHANGED nonKs

StreamNext ==
    \E s \in {1, 2} :
        \/ \E n \in 1..MaxStreamLen + 1 : StreamNextBytes(s, n)
        \/ StreamNextByte(s)

SpecStream == StreamInit /\ [][StreamNext]_vars

\* C17: two streams of one key that have been read equally far, in calls of
\* whatever sizes, have returned the same bytes, and what a stream has
\* returned over its calls is what one NextBytes of a fresh stream of the key
\* returns
StreamDeterministic ==
    /\ Len(ks.out[1]) = Len(ks.out[2]) => ks.out[1] = ks.out[2]
    /\ \A s \in {1, 2} :
          ks.out[s] = NextBytes(MakeByteStream(ks.key), Len(ks.out[s]))

\* C17 witness: four bytes, not all equal, read as 1 + 2 + 1 from one stream
\* and as 4 from the other
StreamChunksWitness ==
    /\ ks.calls = << <<1, 2, 1>>, <<4>> >>
    /\ ks.out[1] = ks.out[2]
    /\ ks.out[1][1] # ks.out[1][2]
    /\ ks.out[1][3] # ks.out[1][4]

(***************************************************************************)
(* SpecGate: one ParallelUnary / ParallelBinary call, its goroutines and   *)
(* its WaitGroup.                                                          *)
(***************************************************************************)
GateKey == <<1, 0>>
GatePacket == [pub |-> [Params |-> 128, Bkw |-> GateKey], prv |-> NoKey]
GateUnits == {[k |-> GateKey, b |-> 0], [k |-> GateKey, b |-> 1]}
GateLens == 0..MaxGateLen
\* second operands: the alternating pattern and its complement
GateOperandB(n) ==
    {[i \in 1..n |-> [k |-> GateKey, b |-> i % 2]],
     [i \in 1..n |-> [k |-> GateKey, b |-> (i + 1) % 2]]}

GateInit ==
    /\ rc = RcIdle
    /\ codec = CodecIdle
    /\ ks = StreamIdle
    /\ ProtoOff
    /\ gate = [GateIdle EXCEPT !.pc = "idle"]

\* the value a gate call computes at position i
GateAt(op, a, b, i) ==
    IF op \in UnaryOps THEN ApplyUnary(op, GatePacket.pub, a[i])
    ELSE ApplyBinary(op, GatePacket.pub, a[i], b[i])

\* the index goroutine i writes: the loop copies i before the closure takes it
WorkerIndexShared(i, n) == n
WorkerIndex(i, n) == i

\* a counter raised by one more than there are positions
WaitGroupAddExtra(n) == n + 1
\* wg.Add(len(a)): the counter starts at the number of positions
WaitGroupAdd(n) == n

\* wg.Wait() returns once the counter is zero
WaitReleasedEarly(wg) == wg <= 1
WaitReleased(wg) == wg = 0

\* a length check that lets every pair of operands through
BitSizeDiffersNever(a, b) == FALSE
\* ParallelBinary line 163: len(a) != len(b)
BitSizeDiffers(a, b) == Len(a) # Len(b)

\* ParallelUnary lines 141-145: wg.Add(len(a)) and the result slice
GateCallUnary ==
    /\ gate.pc = "idle"
    /\ \E op \in UnaryOps, n \in GateLens :
         \E a \in [1..n -> GateUnits] :
           gate' = [gate EXCEPT !.pc = "spawn", !.op = op, !.a = a, !.b = <<>>,
                                !.result = [i \in 1..n |-> NilUnit],
                                !.wg = WaitGroupAdd(n), !.spawned = 0,
                                !.w = [i \in 1..n |-> "none"]]
    /\ UNCHANGED nonGate

\* ParallelBinary lines 162-170: the length check, then as the unary call
GateCallBinary ==
    /\ gate.pc = "idle"
    /\ \E op \in BinaryOps, n \in GateLens, m \in GateLens :
         \E a \in [1..n -> GateUnits], b \in GateOperandB(m) :
           IF BitSizeDiffers(a, b)
           THEN gate' = [gate EXCEPT !.pc = "panic", !.op = op, !.a = a, !.b = b]
           ELSE gate' = [gate EXCEPT !.pc = "spawn", !.op = op, !.a = a, !.b = b,
                                     !.result = [i \in 1..n |-> NilUnit],
                                     !.wg = WaitGroupAdd(n), !.spawned = 0,
                                     !.w = [i \in 1..n |-> "none"]]
    /\ UNCHANGED nonGate

\* one turn of `for i := range a`: go func() for the next position
GateSpawn ==
    /\ gate.pc = "spawn"
    /\ gate.spawned < Len(gate.a)
    /\ gate' = [gate EXCEPT !.spawned = @ + 1, !.w[gate.spawned + 1] = "ready"]
    /\ UNCHANGED nonGate

\* goroutine i: result[i] = operation(p.pub, a[i]) or operation(p.pub, a[i], b[i])
GateWork(i) ==
    /\ gate.pc = "spawn"
    /\ gate.w[i] = "ready"
    /\ LET at == WorkerIndex(i, Len(gate.a))
       IN  gate' = [gate EXCEPT !.w[i] = "wrote",
                                !.result[at] = GateAt(gate.op, gate.a, gate.b, at)]
    /\ UNCHANGED nonGate

\* goroutine i: the deferred wg.Done()
GateDone(i) ==
    /\ gate.pc = "spawn"
    /\ gate.w[i] = "wrote"
    /\ gate' = [gate EXCEPT !.w[i] = "done", !.wg = @ - 1]
    /\ UNCHANGED nonGate

\* goroutine i: the backend gate call does not come back
GateHang(i) ==
    /\ gate.pc = "spawn"
    /\ gate.w[i] = "ready"
    /\ gate' = [gate EXCEPT !.w[i] = "hung"]
    /\ UNCHANGED nonGate

\* wg.Wait() and return result, after the loop has started every goroutine
GateReturn ==
    /\ gate.pc = "spawn"
    /\ gate.spawned = Len(gate.a)
    /\ WaitReleased(gate.wg)
    /\ gate' = [gate EXCEPT !.pc = "returned", !.ret = gate.result]
    /\ UNCHANGED nonGate

GateNext ==
    \/ GateCallUnary
    \/ GateCallBinary
    \/ GateSpawn
    \/ \E i \in 1..MaxGateLen + 1 : i <= Len(gate.w) /\ GateWork(i)
    \/ \E i \in 1..MaxGateLen + 1 : i <= Len(gate.w) /\ GateDone(i)
    \/ \E i \in 1..MaxGateLen + 1 : i <= Len(gate.w) /\ GateHang(i)
    \/ GateReturn

SpecGate == GateInit /\ [][GateNext]_vars

\* the Go scheduler runs every runnable goroutine: the loop of the caller,
\* each started goroutine up to and through its deferred Done, and the
\* caller's Wait once it is released
GateFairness ==
    /\ WF_vars(GateSpawn)
    /\ \A i \in 1..MaxGateLen + 1 : WF_vars(i <= Len(gate.w) /\ GateWork(i))
    /\ \A i \in 1..MaxGateLen + 1 : WF_vars(i <= Len(gate.w) /\ GateDone(i))
    /\ WF_vars(GateReturn)

SpecGateFair == GateInit /\ [][GateNext]_vars /\ GateFairness

\* C9: a returned gate call has the length of its input and holds at every
\* position the gate of the inputs at that position, and a goroutine's write
\* changes no position but its own
GateResultPositional ==
    /\ [](gate.pc = "returned" =>
            /\ Len(gate.ret) = Len(gate.a)
            /\ \A i \in 1..Len(gate.a) :
                 gate.ret[i] = GateAt(gate.op, gate.a, gate.b, i))
    /\ [][\A i \in 1..Len(gate.result) :
            (Len(gate'.result) = Len(gate.result) /\ gate'.result[i] # gate.result[i])
                => gate.w[i] = "ready" /\ gate'.w[i] = "wrote"]_vars

\* C9 witness: a binary call over three positions returned a result that
\* differs from position to position
GatePositionalWitness ==
    /\ gate.pc = "returned"
    /\ gate.op = "Xor"
    /\ Len(gate.a) = 3
    /\ gate.a[1].b = 1 /\ gate.a[2].b = 1 /\ gate.a[3].b = 0
    /\ gate.b[1].b = 1 /\ gate.b[2].b = 0 /\ gate.b[3].b = 1
    /\ gate.ret[1].b = 0 /\ gate.ret[2].b = 1 /\ gate.ret[3].b = 1

\* C10: a call that has returned has every goroutine done and every position
\* filled, and no call returns while a goroutine is stuck in its gate
GateReturnsAfterAll ==
    gate.pc = "returned" =>
        \A i \in 1..Len(gate.a) : gate.w[i] = "done" /\ gate.ret[i] # NilUnit

\* C10 witness: one position is stuck, all the others are done, and the
\* caller is still waiting
GateStalledWitness ==
    /\ gate.pc = "spawn"
    /\ Len(gate.a) = 3
    /\ gate.spawned = 3
    /\ gate.w = <<"done", "hung", "done">>
    /\ ~ENABLED GateReturn

\* C11: a binary gate call on operands of different lengths panics with no
\* goroutine started, no position written and nothing returned, and goes no
\* further; a binary call on operands of equal length never panics
GateMismatchPanics ==
    /\ [](gate.op \in BinaryOps /\ gate.pc \in {"panic", "spawn", "returned"}
            => (gate.pc = "panic" <=> Len(gate.a) # Len(gate.b)))
    /\ [](gate.pc = "panic"
            => /\ gate.op \in BinaryOps
               /\ gate.spawned = 0 /\ gate.wg = 0
               /\ gate.w = <<>> /\ gate.result = <<>> /\ gate.ret = <<>>)
    /\ [][gate.pc = "panic" => gate' = gate]_vars

\* C11 witness: an Xor of three units with one unit has panicked
GateMismatchWitness ==
    /\ gate.pc = "panic"
    /\ gate.op = "Xor"
    /\ Len(gate.a) = 3
    /\ Len(gate.b) = 1

(***************************************************************************)
(* hash/fnv New64: FNV-1 over 64 bits, kept as 8 little-endian byte limbs. *)
(***************************************************************************)
\* offset basis 0xcbf29ce484222325, lowest byte first
FnvOffset64 == <<37, 35, 34, 132, 228, 156, 242, 203>>

\* hash *= 0x100000001b3 (mod 2^64): limb i gets 0x1b3 * h[i] + h[i-5] + carry
FnvMul(h) ==
    LET t[i \in 0..8] ==
            IF i = 0 THEN 0
            ELSE 435 * h[i] + (IF i >= 6 THEN h[i - 5] ELSE 0) + (t[i - 1] \div ByteMod)
    IN  [i \in 1..8 |-> t[i] % ByteMod]

\* hash ^= uint64(c), after the multiplication
FnvStep(h, c) == LET m == FnvMul(h) IN [m EXCEPT ![1] = XorByte(m[1], c)]

\* the state after hash64.Write(data)
FnvWrite(data) ==
    LET f[i \in 0..Len(data)] == IF i = 0 THEN FnvOffset64 ELSE FnvStep(f[i - 1], data[i])
    IN  f[Len(data)]

\* hash64.Write(append(salt, secret...)); hash64.Sum(nil): big-endian bytes
SaltedHash(salt, secret) ==
    LET h == FnvWrite(salt \o secret) IN [i \in 1..8 |-> h[9 - i]]

(***************************************************************************)
(* The protocol: clients, requests in flight, handlers, the user database. *)
(***************************************************************************)
\* Server.saltByteLen and Client.messageByteLen as given to NewServer / NewClient
SaltByteLen == 1
ClientMessageByteLen == 1

\* the clients, each with at most one request in flight, its own password
\* and its own seed of the random stream its secrets are read from
Clients == {1, 2}
Usernames == {"alice", "bob"}
PasswordOf(c) == IF c = 1 THEN <<112>> ELSE <<113>>
SecretSeedOf(c) == IF c = 1 THEN 18 ELSE 200
\* what crypto/rand.Read may put into the salt
Salts == {[i \in 1..SaltByteLen |-> 7], [i \in 1..SaltByteLen |-> 9]}
\* coins of the server's random stream at login-1
CoinSeeds == {0, 77}
\* secrets a request written by hand may carry
RawSecrets == {<<18>>, <<18, 200>>}
\* ciphertexts a sign-up written by hand may carry: the first 1, 2 or 3 units
\* of a ciphertext under client 1's key
RawCiphertexts ==
    {SubSeq(Encrypt(MakePacket(MakeByteStream(PasswordOf(1))), <<18>>), 1, n) : n \in 1..3}
\* what the units of a foreign key decrypt to, unit by unit
JunkBits(n) == {[i \in 1..n |-> 0], [i \in 1..n |-> IF i = 2 \/ i = 5 THEN 1 ELSE 0]}

NoRequest ==
    [kind |-> "none", Malformed |-> FALSE, Username |-> "", EncryptedSecret |-> <<>>,
     Secret |-> <<>>, PublicKey |-> MakePublicKey(NoPub)]
\* the handler's locals; packet is the serverPacket of login-1; json tells a
\* body written by json.NewEncoder(w).Encode from the text of http.Error or
\* no body at all
HandlerIdle ==
    [pc |-> "idle", req |-> NoRequest, status |-> 0, body |-> <<>>, json |-> FALSE,
     salt |-> <<>>, hash |-> <<>>, packet |-> [pub |-> NoPub, prv |-> NoKey]]
ClientIdle == [pc |-> "idle", username |-> "", password |-> <<>>]

\* a User stored without its salt
MakeUserNoSalt(req, salt, hash) ==
    [Username |-> req.Username, EncryptedSecret |-> req.EncryptedSecret,
     SecretHash |-> hash, Salt |-> <<>>]

\* a User stored with the secret where its hash belongs
MakeUserPlainSecret(req, salt, hash) ==
    [Username |-> req.Username, EncryptedSecret |-> req.EncryptedSecret,
     SecretHash |-> req.Secret, Salt |-> salt]

\* the User a sign-up request writes
MakeUser(req, salt, hash) ==
    [Username |-> req.Username, EncryptedSecret |-> req.EncryptedSecret,
     SecretHash |-> hash, Salt |-> salt]

\* a lookup that never finds the key
UserExistsNever(db, key) == FALSE

\* _, ok := s.userDatabase[key]
UserExists(db, key) == key \in DOMAIN db

\* an insert that leaves an existing entry alone
InsertIfAbsent(db, key, value) ==
    [x \in DOMAIN db \cup {key} |-> IF x \in DOMAIN db THEN db[x] ELSE value]

\* s.userDatabase[key] = value
Insert(db, key, value) ==
    [x \in DOMAIN db \cup {key} |-> IF x = key THEN value ELSE db[x]]

\* a lookup that leaves the zero User behind for a key it did not find
AfterLookupInserts(db, key) ==
    IF key \in DOMAIN db THEN db
    ELSE Insert(db, key, [Username |-> "", EncryptedSecret |-> <<>>,
                          SecretHash |-> <<>>, Salt |-> <<>>])
\* the map after `user, ok := s.userDatabase[key]`: a read adds no entry
AfterLookup(db, key) == db

\* a mutex that lets a second goroutine in
MutexFreeAlways(mu) == TRUE
\* s.userDBMu.Lock() goes through when no goroutine holds the mutex
MutexFree(mu) == mu = 0

\* a panic in a goroutine the handler started ends the server process
ServerUp == \A h \in Clients : handler[h].pc # "crashed"

\* json.NewDecoder(req.Body).Decode: a malformed body is answered 400 at once,
\* any other request goes on to its first Lock
Accept(req) ==
    IF req.Malformed
    THEN [HandlerIdle EXCEPT !.pc = "done", !.req = req, !.status = StatusBadRequest]
    ELSE [HandlerIdle EXCEPT !.pc = "lock", !.req = req]

\* requests are admitted one at a time when seq holds, at any time otherwise
Admitted(c, seq) ==
    /\ ServerUp
    /\ client[c].pc = "idle"
    /\ handler[c].pc = "idle"
    /\ seq => \A d \in Clients : handler[d].pc = "idle" /\ client[d].pc = "idle"

ProtoInit ==
    /\ rc = RcIdle
    /\ gate = GateIdle
    /\ codec = CodecIdle
    /\ ks = StreamIdle
    /\ userDatabase = <<>>
    /\ userDBMu = 0
    /\ handler = [c \in Clients |-> HandlerIdle]
    /\ client = [c \in Clients |-> ClientIdle]
    /\ regSecret = <<>>
    /\ signedUp = {}

(***************************************************************************)
(* Server.SignUpHandler                                                    *)
(***************************************************************************)
\* line 113: s.userDBMu.Lock()
SignUpLock(h) ==
    /\ ServerUp
    /\ handler[h].req.kind = "sign-up"
    /\ handler[h].pc = "lock"
    /\ MutexFree(userDBMu)
    /\ userDBMu' = h
    /\ handler' = [handler EXCEPT ![h].pc = "check"]
    /\ UNCHANGED <<userDatabase, client, regSecret, signedUp, rc, gate, codec, ks>>

\* lines 114-132: the lookup, Unlock, then 400 for an existing user, 500 when
\* crypto/rand.Read returns an error, or the salt and the salted hash
\* (hash.Hash.Write never returns an error, so lines 129-132 are not taken)
SignUpCheck(h) ==
    /\ ServerUp
    /\ handler[h].req.kind = "sign-up"
    /\ handler[h].pc = "check"
    /\ userDBMu' = 0
    /\ IF UserExists(userDatabase, handler[h].req.Username)
       THEN handler' = [handler EXCEPT ![h].pc = "done", ![h].status = StatusBadRequest]
       ELSE \/ handler' = [handler EXCEPT ![h].pc = "done",
                                          ![h].status = StatusInternalServerError]
            \/ \E salt \in Salts :
                 handler' = [handler EXCEPT ![h].pc = "lock2", ![h].salt = salt,
                                ![h].hash = SaltedHash(salt, handler[h].req.Secret)]
    /\ userDatabase' = AfterLookup(userDatabase, handler[h].req.Username)
    /\ UNCHANGED <<client, regSecret, signedUp, rc, gate, codec, ks>>

\* line 134: s.userDBMu.Lock()
SignUpLock2(h) ==
    /\ ServerUp
    /\ handler[h].req.kind = "sign-up"
    /\ handler[h].pc = "lock2"
    /\ MutexFree(userDBMu)
    /\ userDBMu' = h
    /\ handler' = [handler EXCEPT ![h].pc = "insert"]
    /\ UNCHANGED <<userDatabase, client, regSecret, signedUp, rc, gate, codec, ks>>

\* lines 135-143: the map assignment, Unlock, status 200
SignUpInsert(h) ==
    /\ ServerUp
    /\ handler[h].req.kind = "sign-up"
    /\ handler[h].pc = "insert"
    /\ LET req == handler[h].req
       IN  /\ userDatabase' = Insert(userDatabase, req.Username,
                                     MakeUser(req, handler[h].salt, handler[h].hash))
           /\ regSecret' = [x \in DOMAIN userDatabase' |->
                               IF userDatabase'[x] = MakeUser(req, handler[h].salt, handler[h].hash)
                                  /\ x = req.Username
                               THEN req.Secret ELSE regSecret[x]]
    /\ userDBMu' = 0
    /\ handler' = [handler EXCEPT ![h].pc = "done", ![h].status = StatusOK]
    /\ UNCHANGED <<client, signedUp, rc, gate, codec, ks>>

(***************************************************************************)
(* Server.FirstLoginHandler and Server.SecondLoginHandler                  *)
(***************************************************************************)
\* lines 159-162, 169: 400 for an unknown user, else 200
FirstLoginStatus(db, req) ==
    IF req.Username \notin DOMAIN db THEN StatusBadRequest ELSE StatusOK

\* a login-2 that compares the zero User's hash instead of answering not-found
SecondLoginStatusNoCheck(db, req) ==
    IF req.Username \notin DOMAIN db THEN StatusForbidden
    ELSE IF SaltedHash(db[req.Username].Salt, req.Secret) # db[req.Username].SecretHash
    THEN StatusForbidden
    ELSE StatusOK

\* a login-2 that compares only the upper half of the digest
SecondLoginStatusHalfHash(db, req) ==
    IF req.Username \notin DOMAIN db THEN StatusBadRequest
    ELSE IF SubSeq(SaltedHash(db[req.Username].Salt, req.Secret), 1, 4)
            # SubSeq(db[req.Username].SecretHash, 1, 4)
    THEN StatusForbidden
    ELSE StatusOK

\* lines 187-205: 400 for an unknown user, 403 when the salted hash of the
\* submitted secret differs from the stored one, else 200
SecondLoginStatus(db, req) ==
    IF req.Username \notin DOMAIN db THEN StatusBadRequest
    ELSE IF SaltedHash(db[req.Username].Salt, req.Secret) # db[req.Username].SecretHash
    THEN StatusForbidden
    ELSE StatusOK

\* lines 156 and 184: s.userDBMu.Lock()
LoginLock(h) ==
    /\ ServerUp
    /\ handler[h].req.kind \in {"login-1", "login-2"}
    /\ handler[h].pc = "lock"
    /\ MutexFree(userDBMu)
    /\ userDBMu' = h
    /\ handler' = [handler EXCEPT ![h].pc = "read"]
    /\ UNCHANGED <<userDatabase, client, regSecret, signedUp, rc, gate, codec, ks>>

\* lines 157-170: the lookup, Unlock, then the mutation XORed onto the stored
\* ciphertext under the public key of the request; a goroutine of Xor that is
\* handed a unit the mutation never assigned dereferences nil
FirstLoginRead(h) ==
    /\ ServerUp
    /\ handler[h].req.kind = "login-1"
    /\ handler[h].pc = "read"
    /\ userDBMu' = 0
    /\ LET req == handler[h].req
           status == FirstLoginStatus(userDatabase, req)
       IN  IF status # StatusOK \/ req.Username \notin DOMAIN userDatabase
           THEN handler' = [handler EXCEPT ![h].pc = "done", ![h].status = status]
           ELSE \E seed \in CoinSeeds :
                  LET user == userDatabase[req.Username]
                      serverPacket == MakePublicPacket(req.PublicKey)
                      randomPayload == makeEncryptedMutation(serverPacket, user.EncryptedSecret,
                                                             MakeRandByteStream(seed))
                  IN  IF \E i \in 1..Len(randomPayload) : GatePanics(randomPayload[i])
                      THEN handler' = [handler EXCEPT ![h].pc = "crashed",
                                                      ![h].packet = serverPacket]
                      ELSE handler' = [handler EXCEPT
                              ![h].pc = "done", ![h].status = status,
                              ![h].packet = serverPacket, ![h].json = TRUE,
                              ![h].body = EvalBinary("Xor", serverPacket, randomPayload,
                                                     user.EncryptedSecret)]
    /\ userDatabase' = AfterLookup(userDatabase, handler[h].req.Username)
    /\ UNCHANGED <<client, regSecret, signedUp, rc, gate, codec, ks>>

\* lines 185-205: the lookup, Unlock, then the hash comparison
SecondLoginRead(h) ==
    /\ ServerUp
    /\ handler[h].req.kind = "login-2"
    /\ handler[h].pc = "read"
    /\ userDBMu' = 0
    /\ handler' = [handler EXCEPT ![h].pc = "done",
                       ![h].status = SecondLoginStatus(userDatabase, handler[h].req)]
    /\ userDatabase' = AfterLookup(userDatabase, handler[h].req.Username)
    /\ UNCHANGED <<client, regSecret, signedUp, rc, gate, codec, ks>>

(***************************************************************************)
(* Client.SignUp, Client.LogIn and requests written by hand                *)
(***************************************************************************)
\* a client that takes every response body for a FirstLogInResponse
DecodesAnyBody(resp) == TRUE

\* lines 109-112: json.NewDecoder(firstResp.Body).Decode gives no error; the
\* text of http.Error is not JSON
DecodesFirstLogInResponse(resp) == resp.json

\* lines 96-97: the key pair of a login, from the password-seeded stream
LogInPacket(password) == MakePacket(MakeByteStream(password))

\* lines 72-85: key pair from the password, zero noise, random secret,
\* payload, Encrypt, PUT /sign-up
ClientSignUp(c, seq) ==
    /\ Admitted(c, seq)
    /\ \E username \in Usernames :
         LET password == PasswordOf(c)
             packet == MakePacket(MakeByteStream(password))
             noise == ZeroBytes(ClientMessageByteLen)
             secret == NextBytes(MakeRandByteStream(SecretSeedOf(c)), ClientMessageByteLen)
             req == [NoRequest EXCEPT !.kind = "sign-up", !.Username = username,
                        !.EncryptedSecret = Encrypt(packet, Payload(noise, secret)),
                        !.Secret = secret]
         IN  /\ handler' = [handler EXCEPT ![c] = Accept(req)]
             /\ client' = [client EXCEPT ![c] = [pc |-> "sign-up", username |-> username,
                                                 password |-> password]]
    /\ UNCHANGED <<userDatabase, userDBMu, regSecret, signedUp, rc, gate, codec, ks>>

\* line 91: return resp.StatusCode == http.StatusOK
ClientSignUpReturn(c) ==
    /\ client[c].pc = "sign-up"
    /\ handler[c].pc = "done"
    /\ signedUp' = IF handler[c].status = StatusOK
                   THEN signedUp \cup {<<client[c].username, client[c].password>>}
                   ELSE signedUp
    /\ client' = [client EXCEPT ![c] = ClientIdle]
    /\ handler' = [handler EXCEPT ![c] = HandlerIdle]
    /\ UNCHANGED <<userDatabase, userDBMu, regSecret, rc, gate, codec, ks>>

\* lines 96-103: key pair from the password, POST /login-1 with the public key
ClientLogIn(c, seq) ==
    /\ Admitted(c, seq)
    /\ \E username \in Usernames :
         LET password == PasswordOf(c)
             packet == LogInPacket(password)
             firstReq == [NoRequest EXCEPT !.kind = "login-1", !.Username = username,
                             !.PublicKey = MakePublicKey(packet.pub)]
         IN  /\ handler' = [handler EXCEPT ![c] = Accept(firstReq)]
             /\ client' = [client EXCEPT ![c] = [pc |-> "login-1", username |-> username,
                                                 password |-> password]]
    /\ UNCHANGED <<userDatabase, userDBMu, regSecret, signedUp, rc, gate, codec, ks>>

\* lines 109-121: decode the response whatever its status (an error text does
\* not decode, LogIn returns the error), Decrypt, XOR of the halves (a panic unless there are
\* 2n bytes), POST /login-2
ClientLogInChallenge(c) ==
    /\ client[c].pc = "login-1"
    /\ handler[c].pc = "done"
    /\ IF ~DecodesFirstLogInResponse(handler[c])
       THEN /\ client' = [client EXCEPT ![c] = ClientIdle]
            /\ handler' = [handler EXCEPT ![c] = HandlerIdle]
       ELSE \E junk \in JunkBits(Len(handler[c].body)) :
              LET packet == LogInPacket(client[c].password)
                  mutatedSecret == Decrypt(packet, handler[c].body, junk)
              IN  IF Len(mutatedSecret) # 2 * ClientMessageByteLen
                  THEN /\ client' = [client EXCEPT ![c].pc = "panic"]
                       /\ handler' = [handler EXCEPT ![c] = HandlerIdle]
                  ELSE LET secondReq == [NoRequest EXCEPT !.kind = "login-2",
                                            !.Username = client[c].username,
                                            !.Secret = Recover(mutatedSecret,
                                                               ClientMessageByteLen)]
                       IN  /\ client' = [client EXCEPT ![c].pc = "login-2"]
                           /\ handler' = [handler EXCEPT ![c] = Accept(secondReq)]
    /\ UNCHANGED <<userDatabase, userDBMu, regSecret, signedUp, rc, gate, codec, ks>>

\* line 127: return secondResp.StatusCode == http.StatusOK
ClientLogInReturn(c) ==
    /\ client[c].pc = "login-2"
    /\ handler[c].pc = "done"
    /\ client' = [client EXCEPT ![c] = ClientIdle]
    /\ handler' = [handler EXCEPT ![c] = HandlerIdle]
    /\ UNCHANGED <<userDatabase, userDBMu, regSecret, signedUp, rc, gate, codec, ks>>

\* a request not written by Client: a malformed body for any endpoint, or a
\* login-2 carrying any secret
RawRequest(c, seq) ==
    /\ Admitted(c, seq)
    /\ \E req \in
          {[NoRequest EXCEPT !.kind = k, !.Malformed = TRUE] :
               k \in {"sign-up", "login-1", "login-2"}}
          \cup {[NoRequest EXCEPT !.kind = "login-2", !.Username = u, !.Secret = x] :
               u \in Usernames, x \in RawSecrets} :
         /\ handler' = [handler EXCEPT ![c] = Accept(req)]
         /\ client' = [client EXCEPT ![c] = [pc |-> "raw", username |-> req.Username,
                                             password |-> <<>>]]
    /\ UNCHANGED <<userDatabase, userDBMu, regSecret, signedUp, rc, gate, codec, ks>>

\* the response to such a request is read and dropped
RawReturn(c) ==
    /\ client[c].pc = "raw"
    /\ handler[c].pc = "done"
    /\ client' = [client EXCEPT ![c] = ClientIdle]
    /\ handler' = [handler EXCEPT ![c] = HandlerIdle]
    /\ UNCHANGED <<userDatabase, userDBMu, regSecret, signedUp, rc, gate, codec, ks>>

\* a sign-up not written by Client: any ciphertext, any secret
RawSignUp(c) ==
    /\ Admitted(c, TRUE)
    /\ \E username \in Usernames, enc \in RawCiphertexts, secret \in RawSecrets :
         LET req == [NoRequest EXCEPT !.kind = "sign-up", !.Username = username,
                                      !.EncryptedSecret = enc, !.Secret = secret]
         IN  /\ handler' = [handler EXCEPT ![c] = Accept(req)]
             /\ client' = [client EXCEPT ![c] = [pc |-> "raw", username |-> username,
                                                 password |-> <<>>]]
    /\ UNCHANGED <<userDatabase, userDBMu, regSecret, signedUp, rc, gate, codec, ks>>

\* lines 103-106: the HTTP call returns an error when the server is gone, and
\* LogIn returns it
ClientLogInDropped(c) ==
    /\ client[c].pc = "login-1"
    /\ handler[c].pc = "crashed"
    /\ client' = [client EXCEPT ![c] = ClientIdle]
    /\ UNCHANGED <<userDatabase, userDBMu, handler, regSecret, signedUp, rc, gate, codec, ks>>

ServerStep(h) ==
    \/ SignUpLock(h)
    \/ SignUpCheck(h)
    \/ SignUpLock2(h)
    \/ SignUpInsert(h)
    \/ LoginLock(h)
    \/ FirstLoginRead(h)
    \/ SecondLoginRead(h)

ClientReturn(c) ==
    \/ ClientSignUpReturn(c)
    \/ ClientLogInChallenge(c)
    \/ ClientLogInReturn(c)
    \/ RawReturn(c)

\* requests of different clients are served concurrently
Next ==
    \E c \in Clients :
        \/ ClientSignUp(c, FALSE)
        \/ ClientLogIn(c, FALSE)
        \/ RawRequest(c, FALSE)
        \/ ClientReturn(c)
        \/ ServerStep(c)

Spec == ProtoInit /\ [][Next]_vars

\* one request at a time: each is answered before the next is sent
NextSeq ==
    \E c \in Clients :
        \/ ClientSignUp(c, TRUE)
        \/ ClientLogIn(c, TRUE)
        \/ RawRequest(c, TRUE)
        \/ ClientReturn(c)
        \/ ServerStep(c)

SpecSeq == ProtoInit /\ [][NextSeq]_vars

\* one request at a time, sign-ups written by hand among them
NextRaw ==
    \E c \in Clients :
        \/ ClientSignUp(c, TRUE)
        \/ RawSignUp(c)
        \/ ClientLogIn(c, TRUE)
        \/ ClientLogInDropped(c)
        \/ RawRequest(c, TRUE)
        \/ ClientReturn(c)
        \/ ServerStep(c)

SpecRaw == ProtoInit /\ [][NextRaw]_vars

(***************************************************************************)
(* Properties of the protocol.                                             *)
(***************************************************************************)
\* the request a handler is serving and the user it names
ReqOf(h) == handler[h].req
Registered(u) == u \in DOMAIN userDatabase
\* handler h answers in this step
Answers(h) == handler[h].pc \notin {"idle", "done"} /\ handler'[h].pc = "done"

\* C2: a LogIn with the username and password of a SignUp that returned true
\* gets status OK from login-1 and from login-2
LogInAfterSignUpSucceeds ==
    \A c \in Clients :
        (/\ <<client[c].username, client[c].password>> \in signedUp
         /\ client[c].pc \in {"login-1", "login-2"}
         /\ handler[c].pc = "done")
            => handler[c].status = StatusOK

\* C3: for a registered user login-2 answers OK exactly when the salted hash
\* of the submitted secret is the stored one: OK for the secret registered at
\* sign-up, Forbidden for any other
SecondLoginDecides ==
    [][\A h \in Clients :
          (ReqOf(h).kind = "login-2" /\ Answers(h) /\ handler[h].pc = "read"
              /\ Registered(ReqOf(h).Username))
           => LET user == userDatabase[ReqOf(h).Username]
                  status == handler'[h].status
              IN  /\ status = StatusOK
                        <=> SaltedHash(user.Salt, ReqOf(h).Secret) = user.SecretHash
                  /\ ReqOf(h).Secret = regSecret[ReqOf(h).Username] => status = StatusOK
                  /\ ReqOf(h).Secret # regSecret[ReqOf(h).Username]
                        => status = StatusForbidden]_vars

\* C3 witness: for one registered user a login-2 with another secret was
\* answered Forbidden while a login-2 with the registered secret was answered OK
SecondLoginWitness ==
    /\ Registered("alice")
    /\ handler[1].req.kind = "login-2" /\ handler[1].pc = "done"
    /\ handler[1].req.Username = "alice" /\ ~handler[1].req.Malformed
    /\ handler[1].req.Secret # regSecret["alice"]
    /\ handler[1].status = StatusForbidden
    /\ handler[2].req.kind = "login-2" /\ handler[2].pc = "done"
    /\ handler[2].req.Username = "alice"
    /\ handler[2].req.Secret = regSecret["alice"]
    /\ handler[2].status = StatusOK

\* C4: with one request at a time, a well-formed sign-up for a username no
\* SignUp has succeeded for is never answered 400: once its salt is drawn it is
\* answered OK and stores the user; and a sign-up for a username a SignUp has
\* succeeded for is answered 400 and stores nothing
SignUpFirstOnly ==
    [][\A h \in Clients :
          (ReqOf(h).kind = "sign-up" /\ Answers(h))
           => IF \E pair \in signedUp : pair[1] = ReqOf(h).Username
              THEN handler'[h].status = StatusBadRequest /\ userDatabase' = userDatabase
              ELSE /\ ~Registered(ReqOf(h).Username)
                   /\ handler'[h].status # StatusBadRequest
                   /\ handler[h].pc = "insert"
                        => /\ handler'[h].status = StatusOK
                           /\ ReqOf(h).Username \in DOMAIN userDatabase'
                   /\ handler[h].pc # "insert"
                        => /\ handler'[h].status = StatusInternalServerError
                           /\ userDatabase' = userDatabase]_vars

\* C4 witness: a second sign-up for a registered username was answered 400
SignUpConflictWitness ==
    /\ <<"alice", PasswordOf(1)>> \in signedUp
    /\ handler[2].req.kind = "sign-up" /\ handler[2].pc = "done"
    /\ handler[2].req.Username = "alice"
    /\ handler[2].status = StatusBadRequest
    /\ userDatabase["alice"].EncryptedSecret # handler[2].req.EncryptedSecret

\* C5: the lock is free between the existence check and the insert, and a
\* sign-up that passed the check writes its user and answers OK whether or
\* not the username has been registered in between
SignUpCheckThenInsert ==
    /\ [](\A h \in Clients : handler[h].pc = "lock2" => userDBMu # h)
    /\ [][\A h \in Clients :
            (ReqOf(h).kind = "sign-up" /\ handler[h].pc = "insert" /\ Answers(h))
             => /\ handler'[h].status = StatusOK
                /\ userDatabase'[ReqOf(h).Username]
                      = MakeUser(ReqOf(h), handler[h].salt, handler[h].hash)]_vars

\* C5 witness: two sign-ups for one username have both passed the check, both
\* been answered OK, and the second has replaced the first one's user
SignUpRaceWitness ==
    /\ \A h \in Clients :
          /\ handler[h].req.kind = "sign-up" /\ handler[h].pc = "done"
          /\ handler[h].req.Username = "alice"
          /\ handler[h].status = StatusOK
    /\ userDatabase["alice"].EncryptedSecret = handler[2].req.EncryptedSecret
    /\ userDatabase["alice"].EncryptedSecret # handler[1].req.EncryptedSecret

\* C6: once a username maps to a User it maps to that User in every later state
RecordsImmutable ==
    [][\A u \in DOMAIN userDatabase :
          u \in DOMAIN userDatabase' /\ userDatabase'[u] = userDatabase[u]]_vars

\* C7: no username is ever removed, and login-1 and login-2 for a username
\* that is not registered answer 400, not 403 and not 200
UnknownUserNotFound ==
    [][/\ DOMAIN userDatabase \subseteq DOMAIN userDatabase'
       /\ \A h \in Clients :
            (ReqOf(h).kind \in {"login-1", "login-2"} /\ handler[h].pc = "read"
                /\ Answers(h) /\ ~Registered(ReqOf(h).Username))
             => /\ handler'[h].status = StatusBadRequest
                /\ handler'[h].status # StatusForbidden
                /\ handler'[h].status # StatusOK]_vars

\* C7 witness: a login-1 and a login-2 for usernames never registered were
\* both answered 400
UnknownUserWitness ==
    /\ userDatabase = <<>>
    /\ handler[1].req.kind = "login-1" /\ handler[1].pc = "done"
    /\ ~handler[1].req.Malformed /\ handler[1].status = StatusBadRequest
    /\ handler[2].req.kind = "login-2" /\ handler[2].pc = "done"
    /\ ~handler[2].req.Malformed /\ handler[2].status = StatusBadRequest

\* C8: a step of a sign-up handler either answers OK and has stored exactly
\* one complete User whose hash is the salted hash of the request's secret, or
\* leaves the user database as it was
SignUpAllOrNothing ==
    [][\A h \in Clients :
          (handler'[h].req.kind = "sign-up" /\ handler'[h] # handler[h])
           => IF handler'[h].pc = "done" /\ handler'[h].status = StatusOK
              THEN LET req == handler'[h].req
                       u == req.Username
                   IN  /\ u \in DOMAIN userDatabase'
                       /\ \A x \in DOMAIN userDatabase' \ {u} :
                             x \in DOMAIN userDatabase /\ userDatabase'[x] = userDatabase[x]
                       /\ userDatabase'[u].Username = u
                       /\ userDatabase'[u].EncryptedSecret = req.EncryptedSecret
                       /\ Len(userDatabase'[u].Salt) = SaltByteLen
                       /\ userDatabase'[u].SecretHash
                             = SaltedHash(userDatabase'[u].Salt, req.Secret)
              ELSE userDatabase' = userDatabase]_vars

\* C8 witness: one sign-up was answered 500 for a failed salt draw, another 400
\* for an existing user, and the database holds the one user stored before
SignUpFailureWitness ==
    /\ DOMAIN userDatabase = {"bob"}
    /\ handler[1].req.kind = "sign-up" /\ handler[1].pc = "done"
    /\ handler[1].req.Username = "alice"
    /\ handler[1].status = StatusInternalServerError
    /\ handler[2].req.kind = "sign-up" /\ handler[2].pc = "done"
    /\ handler[2].req.Username = "bob" /\ handler[2].status = StatusBadRequest
    /\ userDatabase["bob"].SecretHash = SaltedHash(userDatabase["bob"].Salt, regSecret["bob"])

\* C13: a handler holds the lock exactly while it is at its lookup or at its
\* insert, at most one handler is there at a time, the registry changes only
\* in a step of the handler holding the lock, and the holder's next step
\* releases it: no handler waits, computes, answers or ends holding the lock
LockDiscipline ==
    /\ [](\A h \in Clients :
            handler[h].pc \in {"check", "insert", "read"} <=> userDBMu = h)
    /\ [](Cardinality({h \in Clients : handler[h].pc \in {"check", "insert", "read"}}) <= 1)
    /\ [][userDatabase' # userDatabase
            => \E h \in Clients : /\ userDBMu = h
                                   /\ handler[h].pc = "insert"
                                   /\ handler'[h] # handler[h]]_vars
    /\ [][\A h \in Clients :
            (userDBMu = h /\ handler'[h] # handler[h])
                => userDBMu' = 0 /\ handler'[h].pc \in {"lock2", "done"}]_vars
    /\ [][\A h \in Clients :
            (userDBMu = h => userDBMu' \in {h, 0}) /\ (userDBMu' = h => userDBMu \in {h, 0})]_vars

\* C13 witness: one sign-up is at its insert with the lock while the other,
\* past its own check of the same username, waits for the lock
LockContentionWitness ==
    /\ userDBMu = 1
    /\ handler[1].req.kind = "sign-up" /\ handler[1].pc = "insert"
    /\ handler[2].req.kind = "sign-up" /\ handler[2].pc = "lock2"
    /\ handler[2].req.Username = handler[1].req.Username
    /\ ~ENABLED SignUpLock2(2)

\* C14: a step of a login-1 or login-2 request, answered with success or with
\* failure, leaves the user database and every other request's handler as
\* they were, and a login-2 is answered from the database and the request
\* alone, whether or not a login-1 came before it
LoginFrame ==
    [][\A h \in Clients :
          (handler'[h] # handler[h]
              /\ (ReqOf(h).kind \in {"login-1", "login-2"}
                    \/ handler'[h].req.kind \in {"login-1", "login-2"}))
           => /\ userDatabase' = userDatabase
              /\ \A g \in Clients \ {h} : handler'[g] = handler[g]
              /\ (ReqOf(h).kind = "login-2" /\ Answers(h))
                    => LET req == ReqOf(h)
                           known == req.Username \in DOMAIN userDatabase
                           user == userDatabase[req.Username]
                       IN  handler'[h].status =
                             IF ~known THEN StatusBadRequest
                             ELSE IF SaltedHash(user.Salt, req.Secret) = user.SecretHash
                             THEN StatusOK ELSE StatusForbidden]_vars

\* C14 witness: a login-2 that no login-1 preceded was answered OK, a login-1
\* for an unregistered username was answered 400, and the database holds the
\* one user it held before
LoginFrameWitness ==
    /\ DOMAIN userDatabase = {"alice"}
    /\ client[1].pc = "raw"
    /\ handler[1].req.kind = "login-2" /\ handler[1].pc = "done"
    /\ handler[1].req.Username = "alice" /\ handler[1].status = StatusOK
    /\ handler[2].req.kind = "login-1" /\ handler[2].pc = "done"
    /\ handler[2].req.Username = "bob" /\ handler[2].status = StatusBadRequest

\* the bytes a ciphertext holds and the secret of a sign-up payload among them
HeldBytes(enc) ==
    Decrypt([pub |-> NoPub, prv |-> NoKey], enc, [i \in 1..Len(enc) |-> enc[i].b])
SecretIn(enc) == Recover(HeldBytes(enc), Len(HeldBytes(enc)) \div 2)

\* the server side of C15 that the code keeps: no handler ever has a private
\* key, the packet of a login-1 is the public key of its request and cannot
\* decrypt the ciphertext it returns, a login-1 request carries no secret,
\* and a User is stored with the four fields of the struct, none of them the
\* secret: its hash field is the salted hash
ServerKeepsNoSecret ==
    /\ [](\A h \in Clients :
            /\ handler[h].packet.prv = NoKey
            /\ handler[h].req.kind = "login-1" => handler[h].req.Secret = <<>>)
    /\ [][\A h \in Clients :
            (ReqOf(h).kind = "login-1" /\ Answers(h) /\ handler'[h].status = StatusOK)
              => /\ handler'[h].packet.pub = fromPublicKey(ReqOf(h).PublicKey)
                 /\ Len(handler'[h].body) > 0
                 /\ DecryptPanics(handler'[h].packet, handler'[h].body)]_vars
    /\ [][\A u \in DOMAIN userDatabase' :
            (u \notin DOMAIN userDatabase \/ userDatabase'[u] # userDatabase[u])
              => LET user == userDatabase'[u]
                 IN  /\ DOMAIN user = {"Username", "EncryptedSecret", "SecretHash", "Salt"}
                     /\ user.SecretHash # regSecret'[u]
                     /\ user.Salt # regSecret'[u]
                     /\ user.SecretHash = SaltedHash(user.Salt, regSecret'[u])]_vars

\* C15 as stated: all of the above, and no sign-up request brings the server
\* the secret its ciphertext holds
ServerNeverLearnsSecret ==
    /\ ServerKeepsNoSecret
    /\ [][\A h \in Clients :
            (handler'[h].req.kind = "sign-up" /\ ~handler'[h].req.Malformed
                /\ ReqOf(h).kind = "none")
              => handler'[h].req.Secret # SecretIn(handler'[h].req.EncryptedSecret)]_vars

\* C15 amended: the server never has a private key, never decrypts and
\* stores only the salted hash; the secret reaches it in the clear in the
\* Secret field of every sign-up request a client sends
ServerLearnsSecretAtSignUp ==
    /\ ServerKeepsNoSecret
    /\ [][\A h \in Clients :
            (handler'[h].req.kind = "sign-up" /\ client'[h].pc = "sign-up"
                /\ ReqOf(h).kind = "none")
              => /\ handler'[h].req.Secret = SecretIn(handler'[h].req.EncryptedSecret)
                 /\ Len(handler'[h].req.Secret) = ClientMessageByteLen]_vars

\* C15 witness: a login-1 for a stored user has been answered with a
\* ciphertext under the client's key while a sign-up request carrying its
\* secret in the clear is with the server
ServerSecretWitness ==
    /\ "alice" \in DOMAIN userDatabase
    /\ handler[1].req.kind = "login-1" /\ handler[1].pc = "done"
    /\ handler[1].req.Username = "alice" /\ handler[1].status = StatusOK
    /\ handler[1].body[1].k = handler[1].packet.pub.Bkw
    /\ handler[2].req.kind = "sign-up" /\ handler[2].pc = "lock2"
    /\ handler[2].req.Secret = SecretIn(handler[2].req.EncryptedSecret)

\* what must stay with the clients: each password and the two private keys
\* derived from it
Sensitive ==
    UNION {{PasswordOf(d), LogInPacket(PasswordOf(d)).prv.lwe,
            LogInPacket(PasswordOf(d)).prv.tlwe} : d \in Clients}

\* C16: every request handed to the server has the fields of its struct and
\* no other, a client's login-1 carries the public key of its password's key
\* pair, and neither a field nor a ciphertext unit of any request, nor a
\* field of any stored User, is a password or a private key
PasswordStaysHome ==
    /\ [][\A h \in Clients :
            (handler'[h].req # ReqOf(h) /\ handler'[h].req.kind # "none")
              => LET req == handler'[h].req
                 IN  /\ DOMAIN req = DOMAIN NoRequest
                     /\ DOMAIN req.PublicKey = {"Params", "Bkw"}
                     /\ req.Secret \notin Sensitive
                     /\ req.PublicKey.Bkw.Bk \notin Sensitive
                     /\ req.PublicKey.Bkw.BkFFT \notin Sensitive
                     /\ \A i \in 1..Len(req.EncryptedSecret) :
                           req.EncryptedSecret[i].k \notin Sensitive
                     /\ req.kind = "sign-up" => req.PublicKey = NoRequest.PublicKey
                     /\ req.kind = "login-1"
                           => /\ req.Secret = <<>> /\ req.EncryptedSecret = <<>>
                              /\ client'[h].pc = "login-1"
                                    => req.PublicKey = MakePublicKey(
                                           LogInPacket(client'[h].password).pub)
                     /\ req.kind = "login-2"
                           => /\ req.EncryptedSecret = <<>>
                              /\ req.PublicKey = NoRequest.PublicKey]_vars
    /\ [][\A u \in DOMAIN userDatabase' :
            (u \notin DOMAIN userDatabase \/ userDatabase'[u] # userDatabase[u])
              => LET user == userDatabase'[u]
                 IN  /\ user.Salt \notin Sensitive
                     /\ user.SecretHash \notin Sensitive
                     /\ \A i \in 1..Len(user.EncryptedSecret) :
                           user.EncryptedSecret[i].k \notin Sensitive]_vars

\* C16 witness: a User is stored, a login-1 request with a public key and a
\* login-2 request with a secret are with the server
PasswordStaysHomeWitness ==
    /\ "alice" \in DOMAIN userDatabase
    /\ Len(userDatabase["alice"].EncryptedSecret) = 2 * BitsPerByte * ClientMessageByteLen
    /\ handler[1].req.kind = "login-1" /\ client[1].pc = "login-1"
    /\ handler[1].req.PublicKey = MakePublicKey(LogInPacket(PasswordOf(1)).pub)
    /\ handler[1].req.PublicKey.Bkw.Bk # <<>>
    /\ handler[2].req.kind = "login-2" /\ client[2].pc = "login-2"
    /\ Len(handler[2].req.Secret) = ClientMessageByteLen

\* C19: a login-1 for a stored user is answered 200 with a body as long as the
\* stored ciphertext, every unit of it defined
FirstLoginServesStored ==
    [][\A h \in Clients :
          (/\ handler[h].req.kind = "login-1"
           /\ handler[h].pc = "read"
           /\ handler'[h].pc # "read"
           /\ Registered(ReqOf(h).Username))
          => /\ handler'[h].pc = "done"
             /\ handler'[h].status = StatusOK
             /\ Len(handler'[h].body) = Len(userDatabase[ReqOf(h).Username].EncryptedSecret)
             /\ \A i \in 1..Len(handler'[h].body) : handler'[h].body[i] # NilUnit]_vars

\* a sign-up written by hand stored a one-unit ciphertext for alice, and the
\* login-1 of client 1 for alice ended the server instead of answering
FirstLoginCrashWitness ==
    /\ "alice" \in DOMAIN userDatabase
    /\ Len(userDatabase["alice"].EncryptedSecret) = 1
    /\ handler[1].req.kind = "login-1"
    /\ handler[1].req.Username = "alice"
    /\ handler[1].pc = "crashed"
    /\ handler[1].body = <<>>

\* C19, for the ciphertexts Client.SignUp writes (16 units per secret byte)
FirstLoginServesClientRecords ==
    [][\A h \in Clients :
          (/\ handler[h].req.kind = "login-1"
           /\ handler[h].pc = "read"
           /\ handler'[h].pc # "read"
           /\ Registered(ReqOf(h).Username)
           /\ Len(userDatabase[ReqOf(h).Username].EncryptedSecret)
                 = 2 * ClientMessageByteLen * BitsPerByte)
          => /\ handler'[h].pc = "done"
             /\ handler'[h].status = StatusOK
             /\ Len(handler'[h].body) = 2 * ClientMessageByteLen * BitsPerByte
             /\ \A i \in 1..Len(handler'[h].body) : handler'[h].body[i] # NilUnit]_vars

\* a login-2 handler reads the database and decides
SecondLoginReads(h) ==
    /\ handler[h].req.kind = "login-2"
    /\ handler[h].pc = "read"
    /\ handler'[h].pc = "done"

\* C21: a login-2 carrying the registered secret of a registered user is
\* answered 200 whatever login-1 requests came before, and a pair that a
\* login-2 accepted (its answer still held by its handler) is accepted by
\* every later login-2
SecondLoginHistoryFree ==
    /\ [][\A h \in Clients :
             (/\ SecondLoginReads(h)
              /\ Registered(ReqOf(h).Username)
              /\ ReqOf(h).Secret = regSecret[ReqOf(h).Username])
             => handler'[h].status = StatusOK]_vars
    /\ [][\A h \in Clients : \A g \in Clients \ {h} :
             (/\ SecondLoginReads(h)
              /\ handler[g].req.kind = "login-2"
              /\ handler[g].pc = "done"
              /\ handler[g].status = StatusOK
              /\ ReqOf(g).Username = ReqOf(h).Username
              /\ ReqOf(g).Secret = ReqOf(h).Secret)
             => handler'[h].status = StatusOK]_vars

\* the first part of C21 alone: the answer to the registered secret
SecondLoginTakesRegistered ==
    [][\A h \in Clients :
          (/\ SecondLoginReads(h)
           /\ Registered(ReqOf(h).Username)
           /\ ReqOf(h).Secret = regSecret[ReqOf(h).Username])
          => handler'[h].status = StatusOK]_vars

\* one handler holds a 200 and the other a 403 for the same login-2 pair
SecondLoginFlipWitness ==
    \E h \in Clients : \E g \in Clients \ {h} :
        /\ handler[h].req.kind = "login-2" /\ handler[g].req.kind = "login-2"
        /\ handler[h].pc = "done" /\ handler[g].pc = "done"
        /\ ReqOf(h).Username = ReqOf(g).Username
        /\ ReqOf(h).Secret = ReqOf(g).Secret
        /\ handler[h].status = StatusOK
        /\ handler[g].status = StatusForbidden

\* the request of client c stays as it was sent
SameRequest(c) == client'[c] = client[c] /\ handler'[c].req = handler[c].req

\* the call of client c ends and its response is dropped
CallReturns(c) == client'[c] = ClientIdle /\ handler'[c].req.kind = "none"

\* C22: a call of SignUp sends its one sign-up request and a call of LogIn its
\* one login-1 request; the one login-2 request is sent only once login-1 was
\* answered 200; after any other status, or when the server is gone, LogIn
\* sends nothing more and returns
ClientSendsOnce ==
    [][\A c \in Clients :
          /\ client[c].pc = "sign-up" =>
                \/ SameRequest(c) /\ handler[c].req.kind = "sign-up"
                \/ handler[c].pc = "done" /\ CallReturns(c)
          /\ client[c].pc = "login-1" =>
                \/ SameRequest(c) /\ handler[c].req.kind = "login-1"
                \/ /\ handler[c].pc = "done" /\ handler[c].status = StatusOK
                   /\ \/ /\ client'[c] = [client[c] EXCEPT !.pc = "login-2"]
                         /\ handler'[c].req.kind = "login-2"
                         /\ handler'[c].req.Username = client[c].username
                      \/ client'[c].pc = "panic" /\ handler'[c].req.kind = "none"
                \/ /\ \/ handler[c].pc = "crashed"
                      \/ handler[c].pc = "done" /\ handler[c].status # StatusOK
                   /\ client'[c] = ClientIdle
                   /\ handler'[c].req.kind # "login-2"
          /\ client[c].pc = "login-2" =>
                \/ SameRequest(c) /\ handler[c].req.kind = "login-2"
                \/ handler[c].pc = "done" /\ CallReturns(c)
          /\ client'[c].pc = "login-2" => client[c].pc \in {"login-1", "login-2"}]_vars

\* C22 witness: LogIn of client 1 holds a 400 answer to its login-1
ClientRefusedWitness ==
    /\ client[1].pc = "login-1"
    /\ handler[1].req.kind = "login-1"
    /\ handler[1].pc = "done"
    /\ handler[1].status = StatusBadRequest

\* the goroutines of the call that have run their deferred Done
GateDoneSet == {i \in 1..Len(gate.w) : gate.w[i] = "done"}

\* C23: a gate call of any length whose goroutines all come back from their
\* gate returns in the end, and its wait counter is the number of positions
\* less one for every goroutine that is done, each goroutine done once
GateCallReturns ==
    /\ (gate.pc = "spawn") ~>
           (gate.pc = "returned" \/ \E i \in 1..Len(gate.w) : gate.w[i] = "hung")
    /\ [](gate.pc \in {"spawn", "returned"} =>
             gate.wg = Len(gate.a) - Cardinality(GateDoneSet))
    /\ [][\A i \in 1..Len(gate.w) :
             gate.w[i] = "done" /\ gate.pc = "spawn" => gate'.w[i] = "done"]_vars

\* C23 witness: a Not over three positions has returned, every goroutine
\* done and the counter back at zero
GateCallReturnsWitness ==
    /\ gate.pc = "returned"
    /\ gate.op = "Not"
    /\ Len(gate.a) = 3
    /\ gate.w = <<"done", "done", "done">>
    /\ gate.wg = 0

====
